---- MODULE Spec2Model ----
(***************************************************************************)
(* Model of the chat backend: the Chat document (models/Chat.js), the AI   *)
(* routes POST /chat and POST /stream (routes/ai.js), the chat routes      *)
(* POST /:chatId/messages, PUT /:chatId, DELETE /:chatId (routes/chat.js)  *)
(* and the socket room the routes publish to.                              *)
(*                                                                         *)
(* Every handler is cut at its awaits: one action runs from the completion *)
(* of the awaited database or provider call to the next await.  A mongoose *)
(* save() is computed when it is called (validation, pre-save hook, the    *)
(* delta of the modified paths) and applied when its action fires.         *)
(* Strings are sequences of one-character strings.                         *)
(***************************************************************************)
EXTENDS Integers, Sequences, FiniteSets, TLC

(* ------------------------------ bounds -------------------------------- *)
\* number of HTTP requests in one run
NReq == 2
\* number of frames the provider sends on one stream
MaxFrames == 3
\* number of messages a conversation holds before a request arrives
MaxLog == 22
\* number of times the clock advances in one run
MaxTime == 2

Req == 1..NReq
Sessions == {"s1", "s2"}

(* ------------------------------ strings ------------------------------- *)
RECURSIVE TrimLeft(_)
TrimLeft(s) == IF s # <<>> /\ Head(s) = " " THEN TrimLeft(Tail(s)) ELSE s

RECURSIVE TrimRight(_)
TrimRight(s) ==
    IF s # <<>> /\ s[Len(s)] = " " THEN TrimRight(SubSeq(s, 1, Len(s) - 1)) ELSE s

\* String.prototype.trim, as the validator chain's sanitizer applies it
Trim(s) == TrimLeft(TrimRight(s))

\* Math.ceil(n / 4)
CeilDiv4(n) == (n + 3) \div 4

\* str.substring(0, n)
Substring0(s, n) == SubSeq(s, 1, IF Len(s) < n THEN Len(s) ELSE n)

RECURSIVE SelectSeqBy(_, _)
\* the subsequence of s whose indexes are in the set idx
SelectSeqBy(s, idx) ==
    IF s = <<>> THEN <<>>
    ELSE SelectSeqBy(SubSeq(s, 1, Len(s) - 1), idx)
         \o (IF Len(s) \in idx THEN <<s[Len(s)]>> ELSE <<>>)

(* ------------------------------ messages ------------------------------ *)
NoModel == "none"
Roles == {"user", "assistant", "system"}
DefaultModel == "openai/gpt-3.5-turbo"
AVAILABLE_MODELS ==
    {"openai/gpt-3.5-turbo", "openai/gpt-4", "anthropic/claude-3-haiku",
     "anthropic/claude-3-sonnet", "meta-llama/llama-3.1-8b-instruct",
     "mistralai/mistral-7b-instruct", "google/gemma-7b-it"}
NewChatTitle == <<"N", "e", "w", " ", "C", "h", "a", "t">>
TitleLimit == 50
Ellipsis == <<".", ".", ".">>
ContextLimit == 20
\* 'Sorry, I encountered an error while processing your request. Please try again.'
ApologyText == <<"S", "o", "r", "r", "y">>

\* a message object as the routes build it; id stands for the subdocument _id
Msg(id, role, content, model, tokens, ts) ==
    [id |-> id, role |-> role, content |-> content, model |-> model,
     tokens |-> tokens, ts |-> ts]

\* messageSchema with model an optional path
messageSchemaModelOptional(m) ==
    /\ m.role \in Roles
    /\ m.content # <<>>

\* messageSchema validation: role in the enum, content required (an empty
\* string fails a required String), model required when role is assistant
messageSchema(m) ==
    /\ m.role \in Roles
    /\ m.content # <<>>
    /\ (m.role = "assistant" => m.model # NoModel)

RECURSIVE SumTokens(_)
\* messages.reduce((total, msg) => total + (msg.tokens || 0), 0)
SumTokens(ms) == IF ms = <<>> THEN 0 ELSE Head(ms).tokens + SumTokens(Tail(ms))

\* chatSchema.methods.generateTitle
generateTitle(ms) ==
    LET us == {i \in DOMAIN ms : ms[i].role = "user"} IN
    IF ms # <<>> /\ us # {}
    THEN LET f == ms[CHOOSE i \in us : \A j \in us : i <= j] IN
         Substring0(f.content, TitleLimit)
             \o (IF Len(f.content) > TitleLimit THEN Ellipsis ELSE <<>>)
    ELSE NewChatTitle

\* apiMessages with the first 20 messages kept instead of the last
apiMessagesFirst(ms) ==
    LET ns == SelectSeqBy(ms, {i \in DOMAIN ms : ms[i].role # "system"})
        n == IF Len(ns) > ContextLimit THEN ContextLimit ELSE Len(ns)
    IN [i \in 1..n |-> [role |-> ns[i].role, content |-> ns[i].content]]

\* .filter(msg => msg.role !== 'system').slice(-20).map({role, content})
apiMessages(ms) ==
    LET ns == SelectSeqBy(ms, {i \in DOMAIN ms : ms[i].role # "system"})
        from == IF Len(ns) > ContextLimit THEN Len(ns) - ContextLimit + 1 ELSE 1
    IN [i \in 1..(Len(ns) - from + 1) |->
            [role |-> ns[from + i - 1].role, content |-> ns[from + i - 1].content]]

(* ------------------------------- state -------------------------------- *)
VARIABLES
    db,        \* the stored Chat document
    now,       \* the clock Date.now() reads
    pc,        \* pc[r]: where request r's handler is suspended
    inp,       \* inp[r]: the validated request body
    loc,       \* loc[r]: the handler's in-memory Chat document
    pend,      \* pend[r]: messages pushed on loc[r] and not yet saved
    dirty,     \* dirty[r]: modified scalar paths of loc[r]
    flight,    \* flight[r]: the update of a save() that was called
    http,      \* http[r]: the JSON response sent to the caller
    api,       \* api[r]: the body sent to the provider
    reply,     \* reply[r]: what the awaited provider call gave
    up,        \* up[r]: bytes of the provider stream not yet read
    upst,      \* upst[r]: state of the provider stream
    full,      \* full[r]: fullResponse of the stream handler
    res,       \* res[r]: the event-stream response of POST /stream
    conn,      \* conn[r]: the caller's connection is still open
    subs,      \* sessions joined to the conversation's room
    inbox,     \* inbox[s]: events session s received since it joined
    produced,  \* history: every message and delta event produced so far
    joinAt,    \* history: Len(produced) when session s joined
    script,    \* history: the frames the provider chose to send to r
    cut,       \* history: a read of r's stream ended inside a frame
    shown,     \* shown[s]: the messages state of the chat view of session s
    fetch,     \* fetch[s]: the GET of fetchChat and the document it carries
    seen,      \* seen[s]: events of inbox[s] the view's handler has run for
    auth,      \* the state of authReducer
    storage,   \* localStorage 'token'
    calls      \* the auth requests that were sent and have not completed

vars == <<db, now, pc, inp, loc, pend, dirty, flight, http, api, reply, up, upst,
          full, res, conn, subs, inbox, produced, joinAt, script, cut,
          shown, fetch, seen, auth, storage, calls>>

reqVars == <<pc, inp, loc, pend, dirty, flight, http, api, reply>>
streamVars == <<up, upst, full, res, conn, script, cut>>
sockVars == <<subs, inbox, produced, joinAt>>
clientVars == <<shown, fetch, seen, auth, storage, calls>>

NoDoc == [found |-> FALSE, messages |-> <<>>, totalTokens |-> 0,
          title |-> <<>>, model |-> NoModel]
NoFlight == [on |-> FALSE, push |-> <<>>, set |-> {}, totalTokens |-> 0,
             title |-> <<>>, lastActivity |-> 0]
NoInput == [route |-> "none", chatId |-> "none", user |-> "none", message |-> <<>>,
            model |-> NoModel, role |-> "user", tokens |-> 0]
NoHttp == [status |-> 0, body |-> "none", error |-> "none"]
NoApi == [model |-> NoModel, messages |-> <<>>]
NoReply == [kind |-> "none", content |-> <<>>, tokens |-> 0, error |-> "none"]
NoRes == [head |-> FALSE, writes |-> <<>>, ended |-> FALSE, late |-> 0]
NoFetch == [st |-> "none", messages |-> <<>>]
\* a user object; null |-> TRUE is the value null, "undefined" a missing field
User(id, prefs) == [null |-> FALSE, id |-> id, prefs |-> prefs]
NoUser == [null |-> TRUE, id |-> "undefined", prefs |-> "undefined"]
NoToken == "null"
\* initialState with no token in localStorage
initialState == [user |-> NoUser, token |-> NoToken, loading |-> TRUE, error |-> "null"]

\* no request has arrived, no session has joined
Idle ==
    /\ now = 0
    /\ pc = [r \in Req |-> "idle"]
    /\ inp = [r \in Req |-> NoInput]
    /\ loc = [r \in Req |-> NoDoc]
    /\ pend = [r \in Req |-> <<>>]
    /\ dirty = [r \in Req |-> {}]
    /\ flight = [r \in Req |-> NoFlight]
    /\ http = [r \in Req |-> NoHttp]
    /\ api = [r \in Req |-> NoApi]
    /\ reply = [r \in Req |-> NoReply]
    /\ up = [r \in Req |-> <<>>]
    /\ upst = [r \in Req |-> "none"]
    /\ full = [r \in Req |-> <<>>]
    /\ res = [r \in Req |-> NoRes]
    /\ conn = [r \in Req |-> TRUE]
    /\ subs = {}
    /\ inbox = [s \in Sessions |-> <<>>]
    /\ produced = <<>>
    /\ joinAt = [s \in Sessions |-> 0]
    /\ script = [r \in Req |-> <<>>]
    /\ cut = [r \in Req |-> FALSE]
    /\ shown = [s \in Sessions |-> <<>>]
    /\ fetch = [s \in Sessions |-> NoFetch]
    /\ seen = [s \in Sessions |-> 0]
    /\ auth = initialState
    /\ storage = NoToken
    /\ calls = {}

\* new Chat({title: 'New Chat', model: user.preferredModel, messages: []})
Init ==
    /\ db = [messages |-> <<>>, totalTokens |-> 0, title |-> NewChatTitle,
             model |-> DefaultModel, isActive |-> TRUE, lastActivity |-> 0]
    /\ Idle

(* --------------------------- mongoose document ------------------------ *)
\* findOne without the isActive condition
findOneAnyState ==
    [found |-> TRUE, messages |-> db.messages, totalTokens |-> db.totalTokens,
     title |-> db.title, model |-> db.model]

\* Chat.findOne({_id, user, isActive: true}): the document or null
findOne ==
    IF db.isActive
    THEN [found |-> TRUE, messages |-> db.messages, totalTokens |-> db.totalTokens,
          title |-> db.title, model |-> db.model]
    ELSE NoDoc

\* the _id a subdocument gets when it is pushed: unique per message
NewId(doc, r) == <<r, 1 + Cardinality({i \in DOMAIN doc.messages : doc.messages[i].id[1] = r})>>

\* chat.save() validates the document: every pushed subdocument and the title
Validates(doc, pushed) ==
    /\ \A i \in DOMAIN pushed : messageSchema(pushed[i])
    /\ doc.title # <<>>

\* the update save() sends: $push of the pushed subdocuments, $set of the
\* modified paths, and lastActivity from the pre-save hook when messages
\* is modified
SaveDelta(doc, pushed, mod) ==
    [on |-> TRUE, push |-> pushed,
     set |-> mod \cup (IF pushed # <<>> THEN {"lastActivity"} ELSE {}),
     totalTokens |-> doc.totalTokens, title |-> doc.title, lastActivity |-> now]

\* ApplyDelta with the array written as a whole instead of pushed to
ApplyDeltaSet(d, f) ==
    [d EXCEPT !.messages = IF f.push # <<>> THEN f.push ELSE @,
              !.totalTokens = IF "totalTokens" \in f.set THEN f.totalTokens ELSE @,
              !.title = IF "title" \in f.set THEN f.title ELSE @,
              !.lastActivity = IF "lastActivity" \in f.set THEN f.lastActivity ELSE @]

\* ApplyDelta with the pushed subdocuments put in front of the array
ApplyDeltaUnshift(d, f) ==
    [d EXCEPT !.messages = f.push \o @,
              !.totalTokens = IF "totalTokens" \in f.set THEN f.totalTokens ELSE @,
              !.title = IF "title" \in f.set THEN f.title ELSE @,
              !.lastActivity = IF "lastActivity" \in f.set THEN f.lastActivity ELSE @]

\* the stored document after the update of a save() is applied
ApplyDelta(d, f) ==
    [d EXCEPT !.messages = @ \o f.push,
              !.totalTokens = IF "totalTokens" \in f.set THEN f.totalTokens ELSE @,
              !.title = IF "title" \in f.set THEN f.title ELSE @,
              !.lastActivity = IF "lastActivity" \in f.set THEN f.lastActivity ELSE @]

\* chatSchema.methods.calculateTotalTokens on the in-memory document
calculateTotalTokens(doc) == [doc EXCEPT !.totalTokens = SumTokens(doc.messages)]

\* req.io.to(chatId).emit('new-message', {chatId, message})
Emit(m) ==
    LET ev == [type |-> "new-message", message |-> m, content |-> <<>>] IN
    /\ inbox' = [s \in Sessions |-> IF s \in subs THEN Append(inbox[s], ev) ELSE inbox[s]]
    /\ produced' = Append(produced, ev)
    /\ UNCHANGED <<subs, joinAt>>

(* ------------------------------- inputs ------------------------------- *)
\* "c1" is the conversation, "c9" a well-formed id of no conversation,
\* "zz" is not an ObjectId
ChatIdInputs == {"c1", "c9", "zz"}
\* "u1" owns the conversation
UserInputs == {"u1", "u2"}
MessageInputs == {<<>>, <<" ">>, <<"h", "i">>}
ModelInputs == {NoModel, "openai/gpt-4", "bogus"}
RoleInputs == {"user", "assistant", "system", "tool"}
TokenInputs == {0, 2}

isMongoId(id) == id # "zz"

\* Lookup without the _id condition
LookupAnyChat(chatId, user) == IF user = "u1" THEN findOne ELSE NoDoc

\* Lookup without the user condition
LookupAnyUser(chatId, user) == IF chatId = "c1" THEN findOne ELSE NoDoc

\* the lookup every route does: {_id: chatId, user: req.user.userId, isActive: true}
Lookup(chatId, user) == IF chatId = "c1" /\ user = "u1" THEN findOne ELSE NoDoc

\* what the provider answers to the non-streaming call
ProviderOutcomes ==
    { [kind |-> "ok", content |-> <<"y", "o">>, tokens |-> 3, error |-> "none"],
      [kind |-> "ok", content |-> <<>>, tokens |-> 0, error |-> "none"],
      [kind |-> "no-choices", content |-> <<>>, tokens |-> 0, error |-> "none"],
      [kind |-> "http-error", content |-> <<>>, tokens |-> 0, error |-> "rate limited"] }

Reply(r, status, body, error) ==
    http' = [http EXCEPT ![r] = [status |-> status, body |-> body, error |-> error]]

(* ----------------------------- POST /chat ----------------------------- *)
\* validation of the body, then Chat.findOne is awaited
ChatStart(r, chatId, user, message, model) ==
    /\ pc[r] = "idle"
    /\ IF isMongoId(chatId) /\ Len(message) >= 1
          /\ (model = NoModel \/ model \in AVAILABLE_MODELS)
       THEN /\ pc' = [pc EXCEPT ![r] = "chat-find"]
            /\ inp' = [inp EXCEPT ![r] = [route |-> "chat", chatId |-> chatId, user |-> user,
                         message |-> Trim(message), model |-> model,
                         role |-> "user", tokens |-> 0]]
            /\ UNCHANGED http
       ELSE /\ pc' = [pc EXCEPT ![r] = "done"]
            /\ Reply(r, 400, "errors", "none")
            /\ UNCHANGED inp
    /\ UNCHANGED <<db, now, loc, pend, dirty, flight, api, reply, streamVars, sockVars, clientVars>>

\* findOne resolves; the user message is pushed and save() is awaited
ChatFound(r) ==
    /\ pc[r] = "chat-find"
    /\ LET chat == Lookup(inp[r].chatId, inp[r].user) IN
       IF ~chat.found
       THEN /\ pc' = [pc EXCEPT ![r] = "done"]
            /\ Reply(r, 404, "Chat not found", "none")
            /\ UNCHANGED <<loc, pend, flight>>
       ELSE LET userMessage == Msg(NewId(chat, r), "user", inp[r].message, NoModel,
                                   CeilDiv4(Len(inp[r].message)), now)
                doc == [chat EXCEPT !.messages = Append(@, userMessage)]
            IN /\ loc' = [loc EXCEPT ![r] = doc]
               /\ pend' = [pend EXCEPT ![r] = <<userMessage>>]
               /\ IF Validates(doc, <<userMessage>>)
                  THEN /\ flight' = [flight EXCEPT ![r] = SaveDelta(doc, <<userMessage>>, {})]
                       /\ pc' = [pc EXCEPT ![r] = "chat-save-user"]
                       /\ UNCHANGED http
                  ELSE /\ pc' = [pc EXCEPT ![r] = "done"]
                       /\ Reply(r, 500, "Server error", "none")
                       /\ UNCHANGED flight
    /\ UNCHANGED <<db, now, inp, dirty, api, reply, streamVars, sockVars, clientVars>>

\* the user message is saved; it is emitted and the provider call is awaited
ChatUserSaved(r) ==
    /\ pc[r] = "chat-save-user"
    /\ db' = ApplyDelta(db, flight[r])
    /\ flight' = [flight EXCEPT ![r] = NoFlight]
    /\ pend' = [pend EXCEPT ![r] = <<>>]
    /\ Emit(loc[r].messages[Len(loc[r].messages)])
    /\ api' = [api EXCEPT ![r] =
                 [model |-> IF inp[r].model # NoModel THEN inp[r].model ELSE loc[r].model,
                  messages |-> apiMessages(loc[r].messages)]]
    /\ pc' = [pc EXCEPT ![r] = "chat-provider"]
    /\ UNCHANGED <<now, inp, loc, dirty, http, reply, streamVars, clientVars>>

\* catch (apiError): the placeholder is pushed and save() is awaited
ChatCatch(r, doc, pushed, mod, error) ==
    LET errorMessage == Msg(NewId(doc, r), "assistant", ApologyText, api[r].model, 0, now)
        doc2 == [doc EXCEPT !.messages = Append(@, errorMessage)]
        pushed2 == Append(pushed, errorMessage)
    IN /\ loc' = [loc EXCEPT ![r] = doc2]
       /\ pend' = [pend EXCEPT ![r] = pushed2]
       /\ dirty' = [dirty EXCEPT ![r] = mod]
       /\ IF Validates(doc2, pushed2)
          THEN /\ flight' = [flight EXCEPT ![r] = SaveDelta(doc2, pushed2, mod)]
               /\ pc' = [pc EXCEPT ![r] = "chat-save-error"]
               \* apiError is kept for the response the catch block sends
               /\ http' = [http EXCEPT ![r].error = error]
          ELSE /\ pc' = [pc EXCEPT ![r] = "done"]
               /\ Reply(r, 500, "Server error", "none")
               /\ UNCHANGED flight

\* axios.post resolves or rejects
ChatProvider(r, o) ==
    /\ pc[r] = "chat-provider"
    /\ reply' = [reply EXCEPT ![r] = o]
    /\ IF o.kind = "ok"
       THEN LET assistantMessage == Msg(NewId(loc[r], r), "assistant", o.content,
                                        api[r].model, o.tokens, now)
                doc == calculateTotalTokens(
                           [loc[r] EXCEPT !.messages = Append(@, assistantMessage)])
                mod == IF doc.totalTokens # loc[r].totalTokens
                       THEN {"totalTokens"} ELSE {}
            IN IF Validates(doc, <<assistantMessage>>)
               THEN /\ loc' = [loc EXCEPT ![r] = doc]
                    /\ pend' = [pend EXCEPT ![r] = <<assistantMessage>>]
                    /\ dirty' = [dirty EXCEPT ![r] = mod]
                    /\ flight' = [flight EXCEPT ![r] =
                                    SaveDelta(doc, <<assistantMessage>>, mod)]
                    /\ pc' = [pc EXCEPT ![r] = "chat-save-reply"]
                    /\ UNCHANGED http
               ELSE ChatCatch(r, doc, <<assistantMessage>>, mod, "Unknown error")
       ELSE ChatCatch(r, loc[r], <<>>, {},
                      IF o.kind = "http-error" THEN o.error ELSE "Unknown error")
    /\ UNCHANGED <<db, now, inp, api, streamVars, sockVars, clientVars>>

\* the reply is saved; it is emitted and returned
ChatReplySaved(r) ==
    /\ pc[r] = "chat-save-reply"
    /\ db' = ApplyDelta(db, flight[r])
    /\ flight' = [flight EXCEPT ![r] = NoFlight]
    /\ pend' = [pend EXCEPT ![r] = <<>>]
    /\ dirty' = [dirty EXCEPT ![r] = {}]
    /\ Emit(loc[r].messages[Len(loc[r].messages)])
    /\ pc' = [pc EXCEPT ![r] = "done"]
    /\ Reply(r, 200, "success", "none")
    /\ UNCHANGED <<now, inp, loc, api, reply, streamVars, clientVars>>

\* the placeholder is saved; it is emitted and the error is returned
ChatErrorSaved(r) ==
    /\ pc[r] = "chat-save-error"
    /\ db' = ApplyDelta(db, flight[r])
    /\ flight' = [flight EXCEPT ![r] = NoFlight]
    /\ pend' = [pend EXCEPT ![r] = <<>>]
    /\ dirty' = [dirty EXCEPT ![r] = {}]
    /\ Emit(loc[r].messages[Len(loc[r].messages)])
    /\ pc' = [pc EXCEPT ![r] = "done"]
    /\ Reply(r, 500, "AI service temporarily unavailable", http[r].error)
    /\ UNCHANGED <<now, inp, loc, api, reply, streamVars, clientVars>>

(* ----------------------- POST /:chatId/messages ------------------------ *)
\* validation of the body, then Chat.findOne is awaited
AddStart(r, chatId, user, content, role, model, tokens) ==
    /\ pc[r] = "idle"
    /\ IF Len(content) >= 1 /\ role \in Roles
       THEN /\ pc' = [pc EXCEPT ![r] = "add-find"]
            /\ inp' = [inp EXCEPT ![r] = [route |-> "add", chatId |-> chatId, user |-> user,
                         message |-> Trim(content), model |-> model,
                         role |-> role, tokens |-> tokens]]
            /\ UNCHANGED http
       ELSE /\ pc' = [pc EXCEPT ![r] = "done"]
            /\ Reply(r, 400, "errors", "none")
            /\ UNCHANGED inp
    /\ UNCHANGED <<db, now, loc, pend, dirty, flight, api, reply, streamVars, sockVars, clientVars>>

\* findOne resolves; the message is pushed, the total recomputed, the title
\* derived for a first user message, and save() is awaited
AddFound(r) ==
    /\ pc[r] = "add-find"
    /\ LET chat == IF isMongoId(inp[r].chatId)
                   THEN Lookup(inp[r].chatId, inp[r].user) ELSE NoDoc IN
       IF ~isMongoId(inp[r].chatId)
       THEN \* the query's cast of _id throws: catch (error)
            /\ pc' = [pc EXCEPT ![r] = "done"]
            /\ Reply(r, 500, "Server error", "none")
            /\ UNCHANGED <<loc, pend, dirty, flight>>
       ELSE IF ~chat.found
       THEN /\ pc' = [pc EXCEPT ![r] = "done"]
            /\ Reply(r, 404, "Chat not found", "none")
            /\ UNCHANGED <<loc, pend, dirty, flight>>
       ELSE LET message == Msg(NewId(chat, r), inp[r].role, inp[r].message,
                               IF inp[r].role = "assistant" THEN inp[r].model ELSE NoModel,
                               inp[r].tokens, now)
                doc1 == calculateTotalTokens([chat EXCEPT !.messages = Append(@, message)])
                doc == IF doc1.title = NewChatTitle /\ inp[r].role = "user"
                          /\ Len(doc1.messages) = 1
                       THEN [doc1 EXCEPT !.title = generateTitle(doc1.messages)]
                       ELSE doc1
                mod == (IF doc.totalTokens # chat.totalTokens THEN {"totalTokens"} ELSE {})
                       \cup (IF doc.title # chat.title THEN {"title"} ELSE {})
            IN /\ loc' = [loc EXCEPT ![r] = doc]
               /\ pend' = [pend EXCEPT ![r] = <<message>>]
               /\ dirty' = [dirty EXCEPT ![r] = mod]
               /\ IF Validates(doc, <<message>>)
                  THEN /\ flight' = [flight EXCEPT ![r] = SaveDelta(doc, <<message>>, mod)]
                       /\ pc' = [pc EXCEPT ![r] = "add-save"]
                       /\ UNCHANGED http
                  ELSE /\ pc' = [pc EXCEPT ![r] = "done"]
                       /\ Reply(r, 500, "Server error", "none")
                       /\ UNCHANGED flight
    /\ UNCHANGED <<db, now, inp, api, reply, streamVars, sockVars, clientVars>>

\* the message is saved; it is emitted and returned
AddSaved(r) ==
    /\ pc[r] = "add-save"
    /\ db' = ApplyDelta(db, flight[r])
    /\ flight' = [flight EXCEPT ![r] = NoFlight]
    /\ pend' = [pend EXCEPT ![r] = <<>>]
    /\ dirty' = [dirty EXCEPT ![r] = {}]
    /\ Emit(loc[r].messages[Len(loc[r].messages)])
    /\ pc' = [pc EXCEPT ![r] = "done"]
    /\ Reply(r, 201, "success", "none")
    /\ UNCHANGED <<now, inp, loc, api, reply, streamVars, clientVars>>

(* ------------------- PUT /:chatId and DELETE /:chatId ------------------ *)
TitleInputs == {<<>>, <<"t">>}

\* Chat.findOneAndUpdate({_id, user, isActive: true}, {title})
Rename(r, chatId, user, title) ==
    /\ pc[r] = "idle"
    /\ pc' = [pc EXCEPT ![r] = "done"]
    /\ IF ~(Len(title) >= 1 /\ Len(title) <= 100)
       THEN Reply(r, 400, "errors", "none") /\ UNCHANGED db
       ELSE IF ~isMongoId(chatId)
       THEN Reply(r, 500, "Server error", "none") /\ UNCHANGED db
       ELSE IF Lookup(chatId, user).found
       THEN Reply(r, 200, "success", "none") /\ db' = [db EXCEPT !.title = Trim(title)]
       ELSE Reply(r, 404, "Chat not found", "none") /\ UNCHANGED db
    /\ inp' = [inp EXCEPT ![r] = [NoInput EXCEPT !.route = "rename",
                                     !.chatId = chatId, !.user = user]]
    /\ UNCHANGED <<now, loc, pend, dirty, flight, api, reply, streamVars, sockVars, clientVars>>

\* Chat.findOneAndUpdate({_id, user, isActive: true}, {isActive: false})
Delete(r, chatId, user) ==
    /\ pc[r] = "idle"
    /\ pc' = [pc EXCEPT ![r] = "done"]
    /\ IF ~isMongoId(chatId)
       THEN Reply(r, 500, "Server error", "none") /\ UNCHANGED db
       ELSE IF Lookup(chatId, user).found
       THEN Reply(r, 200, "Chat deleted successfully", "none")
            /\ db' = [db EXCEPT !.isActive = FALSE]
       ELSE Reply(r, 404, "Chat not found", "none") /\ UNCHANGED db
    /\ inp' = [inp EXCEPT ![r] = [NoInput EXCEPT !.route = "delete",
                                     !.chatId = chatId, !.user = user]]
    /\ UNCHANGED <<now, loc, pend, dirty, flight, api, reply, streamVars, sockVars, clientVars>>

\* GET /:chatId: Chat.findOne({_id, user, isActive: true}); the document is
\* returned to the caller
Get(r, chatId, user) ==
    /\ pc[r] = "idle"
    /\ pc' = [pc EXCEPT ![r] = "done"]
    /\ IF ~isMongoId(chatId)
       THEN Reply(r, 500, "Server error", "none")
       ELSE IF Lookup(chatId, user).found
       THEN Reply(r, 200, "chat", "none")
       ELSE Reply(r, 404, "Chat not found", "none")
    /\ inp' = [inp EXCEPT ![r] = [NoInput EXCEPT !.route = "get",
                                     !.chatId = chatId, !.user = user]]
    /\ UNCHANGED <<db, now, loc, pend, dirty, flight, api, reply, streamVars, sockVars, clientVars>>

(* ------------------------------ socket room --------------------------- *)
\* socket.emit('join-chat', chatId): the session joins the room
JoinChat(s) ==
    /\ s \notin subs
    /\ subs' = subs \cup {s}
    /\ inbox' = [inbox EXCEPT ![s] = <<>>]
    /\ joinAt' = [joinAt EXCEPT ![s] = Len(produced)]
    /\ UNCHANGED <<db, now, reqVars, streamVars, produced, clientVars>>

\* socket.emit('leave-chat', chatId): the session leaves the room
LeaveChat(s) ==
    /\ s \in subs
    /\ subs' = subs \ {s}
    /\ UNCHANGED <<db, now, reqVars, streamVars, inbox, produced, joinAt, clientVars>>

(* ---------------------------- provider stream ------------------------- *)
\* the frames the provider can send: a data frame whose JSON carries a
\* content delta (possibly none), a data frame whose payload is not JSON,
\* the sentinel 'data: [DONE]', and a comment line without the data prefix
Frame(k, c) == [k |-> k, c |-> c]
Frames ==
    { Frame("delta", <<"h">>), Frame("delta", <<"i">>), Frame("delta", <<>>),
      Frame("bad", <<>>), Frame("done", <<>>), Frame("comment", <<>>) }

RECURSIVE SeqsUpTo(_, _)
\* all sequences over S of length at most n
SeqsUpTo(S, n) ==
    IF n = 0 THEN {<<>>}
    ELSE LET shorter == SeqsUpTo(S, n - 1) IN
         shorter \cup {Append(q, x) : q \in {p \in shorter : Len(p) = n - 1}, x \in S}

\* a malformed frame between two valid ones, then the sentinel
MalformedBetween ==
    <<Frame("delta", <<"h">>), Frame("bad", <<>>), Frame("delta", <<"i">>),
      Frame("done", <<>>)>>

\* what the provider may send on one stream
Scripts == SeqsUpTo(Frames, MaxFrames) \cup {MalformedBetween}

\* the bytes of frame i in three parts, since a read may end anywhere: the
\* prefix 'data: ' with the start of the payload, the rest of the payload,
\* and the newline; a comment line has no prefix
Tok(t, f, i) == [t |-> t, k |-> f.k, c |-> f.c, i |-> i]
FrameBytes(f, i) ==
    IF f.k = "comment" THEN <<Tok("cm", f, i), Tok("nl", f, i)>>
    ELSE <<Tok("head", f, i), Tok("tail", f, i), Tok("nl", f, i)>>

RECURSIVE Bytes(_, _)
\* the byte stream of frames fs, the first of which has index i
Bytes(fs, i) == IF fs = <<>> THEN <<>> ELSE FrameBytes(Head(fs), i) \o Bytes(Tail(fs), i + 1)

RECURSIVE Split(_)
\* chunk.toString().split('\n')
Split(chunk) ==
    LET nls == {j \in DOMAIN chunk : chunk[j].t = "nl"} IN
    IF nls = {} THEN <<chunk>>
    ELSE LET j == CHOOSE x \in nls : \A y \in nls : x <= y IN
         <<SubSeq(chunk, 1, j - 1)>> \o Split(SubSeq(chunk, j + 1, Len(chunk)))

\* line.startsWith('data: ')
startsWithData(line) == line # <<>> /\ line[1].t = "head"

\* line.slice(6) is the whole payload of one frame
WholePayload(line) ==
    /\ Len(line) = 2
    /\ line[1].t = "head" /\ line[2].t = "tail" /\ line[1].i = line[2].i

\* data === '[DONE]'
isDone(data) == WholePayload(data) /\ data[1].k = "done"

\* JSON.parse(data) returns (a truncated or malformed payload throws)
parses(data) == WholePayload(data) /\ data[1].k = "delta"

\* parsed.choices?.[0]?.delta?.content || ''
deltaContent(data) == data[1].c

\* Write with the events written after res.end() reaching the client too
WriteAfterEnd(rs, ev) == [rs EXCEPT !.writes = Append(@, ev)]

\* res.write(event) and res.end()
Write(rs, ev) ==
    IF rs.ended THEN [rs EXCEPT !.late = @ + 1] ELSE [rs EXCEPT !.writes = Append(@, ev)]
End(rs) == [rs EXCEPT !.ended = TRUE]
Event(type, content, m) == [type |-> type, content |-> content, message |-> m]
NoMsg == Msg(<<0, 0>>, "none", <<>>, NoModel, 0, 0)

\* chat.save() that is not awaited: rejected when a save of the document is
\* in progress or validation fails, otherwise its update is under way
SaveCall(st) ==
    IF st.flight.on \/ ~Validates(st.doc, st.pend) THEN st.flight
    ELSE SaveDelta(st.doc, st.pend, st.dirty)

\* the [DONE] branch: the assembled message is pushed, the total recomputed,
\* save() called, the terminal event written and the response ended
OnDone(st, r) ==
    LET assistantMessage == Msg(NewId(st.doc, r), "assistant", st.full, api[r].model,
                                CeilDiv4(Len(st.full)), now)
        doc == calculateTotalTokens([st.doc EXCEPT !.messages = Append(@, assistantMessage)])
        st1 == [st EXCEPT !.doc = doc,
                          !.pend = Append(@, assistantMessage),
                          !.dirty = @ \cup (IF doc.totalTokens # st.doc.totalTokens
                                            THEN {"totalTokens"} ELSE {})]
    IN [st1 EXCEPT !.flight = SaveCall(st1),
                   !.res = End(Write(st.res, Event("done", <<>>, assistantMessage)))]

\* OnPayload with the delta put in front of the text assembled so far
OnPayloadPrepend(st, data) ==
    IF parses(data) /\ deltaContent(data) # <<>>
    THEN [st EXCEPT !.full = deltaContent(data) \o @,
                    !.res = Write(@, Event("partial", deltaContent(data), NoMsg))]
    ELSE st

\* OnPayload with a payload that does not parse treated as fatal
OnPayloadAbort(st, data) ==
    IF ~parses(data)
    THEN [st EXCEPT !.res = End(Write(@, Event("error", <<>>, NoMsg)))]
    ELSE IF deltaContent(data) # <<>>
    THEN [st EXCEPT !.full = @ \o deltaContent(data),
                    !.res = Write(@, Event("partial", deltaContent(data), NoMsg))]
    ELSE st

\* the try block on a data line that is not the sentinel
OnPayload(st, data) ==
    IF parses(data) /\ deltaContent(data) # <<>>
    THEN [st EXCEPT !.full = @ \o deltaContent(data),
                    !.res = Write(@, Event("partial", deltaContent(data), NoMsg))]
    ELSE st

RECURSIVE OnLines(_, _, _)
\* for (const line of lines): the sentinel returns from the handler
OnLines(lines, st, r) ==
    IF lines = <<>> THEN st
    ELSE LET line == Head(lines) IN
         IF ~startsWithData(line) THEN OnLines(Tail(lines), st, r)
         ELSE IF isDone(line) THEN OnDone(st, r)
         ELSE OnLines(Tail(lines), OnPayload(st, line), r)

\* response.data.on('data', (chunk) => ...)
OnData(chunk, st, r) == OnLines(Split(chunk), st, r)

HandlerState(r) ==
    [full |-> full[r], res |-> res[r], doc |-> loc[r], pend |-> pend[r],
     dirty |-> dirty[r], flight |-> flight[r]]

(* ----------------------------- POST /stream --------------------------- *)
\* { type: 'error', error: e }: the text is carried as the one item of content
ErrorEvent(e) == Event("error", <<e>>, NoMsg)

\* validation of the body, the event-stream head, then Chat.findOne is awaited
StreamStart(r, chatId, user, message, model) ==
    /\ pc[r] = "idle"
    /\ IF isMongoId(chatId) /\ Len(message) >= 1
          /\ (model = NoModel \/ model \in AVAILABLE_MODELS)
       THEN /\ pc' = [pc EXCEPT ![r] = "stream-find"]
            /\ inp' = [inp EXCEPT ![r] = [route |-> "stream", chatId |-> chatId, user |-> user,
                         message |-> Trim(message), model |-> model,
                         role |-> "user", tokens |-> 0]]
            /\ res' = [res EXCEPT ![r].head = TRUE]
            /\ UNCHANGED http
       ELSE /\ pc' = [pc EXCEPT ![r] = "done"]
            /\ Reply(r, 400, "errors", "none")
            /\ UNCHANGED <<inp, res>>
    /\ UNCHANGED <<db, now, loc, pend, dirty, flight, api, reply, up, upst, full, conn,
                   script, cut, sockVars, clientVars>>

\* findOne resolves; the user message is pushed and save() is awaited
StreamFound(r) ==
    /\ pc[r] = "stream-find"
    /\ LET chat == Lookup(inp[r].chatId, inp[r].user) IN
       IF ~chat.found
       THEN /\ pc' = [pc EXCEPT ![r] = "done"]
            /\ res' = [res EXCEPT ![r] = End(Write(@, ErrorEvent("Chat not found")))]
            /\ UNCHANGED <<loc, pend, flight>>
       ELSE LET userMessage == Msg(NewId(chat, r), "user", inp[r].message, NoModel,
                                   CeilDiv4(Len(inp[r].message)), now)
                doc == [chat EXCEPT !.messages = Append(@, userMessage)]
            IN /\ loc' = [loc EXCEPT ![r] = doc]
               /\ pend' = [pend EXCEPT ![r] = <<userMessage>>]
               /\ IF Validates(doc, <<userMessage>>)
                  THEN /\ flight' = [flight EXCEPT ![r] = SaveDelta(doc, <<userMessage>>, {})]
                       /\ pc' = [pc EXCEPT ![r] = "stream-save-user"]
                       /\ UNCHANGED res
                  ELSE /\ pc' = [pc EXCEPT ![r] = "done"]
                       /\ res' = [res EXCEPT ![r] = End(Write(@, ErrorEvent("Server error")))]
                       /\ UNCHANGED flight
    /\ UNCHANGED <<db, now, inp, dirty, http, api, reply, up, upst, full, conn, script, cut, sockVars,
                   clientVars>>

\* the user message is saved; the streaming provider call is awaited
StreamUserSaved(r) ==
    /\ pc[r] = "stream-save-user"
    /\ db' = ApplyDelta(db, flight[r])
    /\ flight' = [flight EXCEPT ![r] = NoFlight]
    /\ pend' = [pend EXCEPT ![r] = <<>>]
    /\ api' = [api EXCEPT ![r] =
                 [model |-> IF inp[r].model # NoModel THEN inp[r].model ELSE loc[r].model,
                  messages |-> apiMessages(loc[r].messages)]]
    /\ pc' = [pc EXCEPT ![r] = "stream-provider"]
    /\ UNCHANGED <<now, inp, loc, dirty, http, reply, streamVars, sockVars, clientVars>>

\* axios.post resolves with the stream; the data and error handlers are set
StreamOpen(r, fs) ==
    /\ pc[r] = "stream-provider"
    /\ pc' = [pc EXCEPT ![r] = "streaming"]
    /\ up' = [up EXCEPT ![r] = Bytes(fs, 1)]
    /\ upst' = [upst EXCEPT ![r] = "open"]
    /\ script' = [script EXCEPT ![r] = fs]
    /\ UNCHANGED <<db, now, inp, loc, pend, dirty, flight, http, api, reply, full, res,
                   conn, cut, sockVars, clientVars>>

\* axios.post rejects: catch (apiError)
StreamRejected(r) ==
    /\ pc[r] = "stream-provider"
    /\ pc' = [pc EXCEPT ![r] = "done"]
    /\ upst' = [upst EXCEPT ![r] = "rejected"]
    /\ res' = [res EXCEPT ![r] = End(Write(@, ErrorEvent("AI service error")))]
    /\ UNCHANGED <<db, now, inp, loc, pend, dirty, flight, http, api, reply, up, full,
                   conn, script, cut, sockVars, clientVars>>

\* the events a handler run wrote to the response
NewWrites(before, after) == SubSeq(after.writes, Len(before.writes) + 1, Len(after.writes))

\* a 'data' event with the next n bytes of the provider stream
StreamData(r, n) ==
    /\ upst[r] = "open"
    /\ n \in 1..Len(up[r])
    /\ LET st == OnData(SubSeq(up[r], 1, n), HandlerState(r), r) IN
       /\ full' = [full EXCEPT ![r] = st.full]
       /\ res' = [res EXCEPT ![r] = st.res]
       /\ loc' = [loc EXCEPT ![r] = st.doc]
       /\ pend' = [pend EXCEPT ![r] = st.pend]
       /\ dirty' = [dirty EXCEPT ![r] = st.dirty]
       /\ flight' = [flight EXCEPT ![r] = st.flight]
       /\ produced' = produced \o NewWrites(res[r], st.res)
    /\ up' = [up EXCEPT ![r] = SubSeq(@, n + 1, Len(@))]
    /\ cut' = [cut EXCEPT ![r] = @ \/ up[r][n].t # "nl"]
    /\ UNCHANGED <<db, now, pc, inp, http, api, reply, upst, conn, script, subs, inbox,
                   joinAt, clientVars>>

\* StreamError with the text assembled so far saved as the reply
StreamErrorSavesPartial(r) ==
    /\ upst[r] = "open"
    /\ upst' = [upst EXCEPT ![r] = "errored"]
    /\ LET st == OnDone(HandlerState(r), r) IN
       /\ loc' = [loc EXCEPT ![r] = st.doc]
       /\ pend' = [pend EXCEPT ![r] = st.pend]
       /\ dirty' = [dirty EXCEPT ![r] = st.dirty]
       /\ flight' = [flight EXCEPT ![r] = st.flight]
    /\ res' = [res EXCEPT ![r] = End(Write(@, ErrorEvent("Streaming error")))]
    /\ UNCHANGED <<db, now, pc, inp, http, api, reply, up, full, conn, script, cut,
                   sockVars, clientVars>>

\* response.data.on('error', ...): the stream is destroyed, no data follows
StreamError(r) ==
    /\ upst[r] = "open"
    /\ upst' = [upst EXCEPT ![r] = "errored"]
    /\ res' = [res EXCEPT ![r] = End(Write(@, ErrorEvent("Streaming error")))]
    /\ UNCHANGED <<db, now, reqVars, up, full, conn, script, cut, sockVars, clientVars>>

\* the provider closes the stream after its last byte: no handler listens
StreamClose(r) ==
    /\ upst[r] = "open"
    /\ up[r] = <<>>
    /\ upst' = [upst EXCEPT ![r] = "closed"]
    /\ UNCHANGED <<db, now, reqVars, up, full, res, conn, script, cut, sockVars, clientVars>>

\* the update of the save() called in the [DONE] branch is applied
StreamSaved(r) ==
    /\ pc[r] = "streaming"
    /\ flight[r].on
    /\ db' = ApplyDelta(db, flight[r])
    /\ flight' = [flight EXCEPT ![r] = NoFlight]
    /\ pend' = [pend EXCEPT ![r] = <<>>]
    /\ dirty' = [dirty EXCEPT ![r] = {}]
    /\ UNCHANGED <<now, pc, inp, loc, http, api, reply, streamVars, sockVars, clientVars>>

\* the caller of POST /stream goes away; the route has no close handler
ClientDisconnect(r) ==
    /\ pc[r] \in {"stream-find", "stream-save-user", "stream-provider", "streaming"}
    /\ conn[r]
    /\ ~res[r].ended
    /\ conn' = [conn EXCEPT ![r] = FALSE]
    /\ UNCHANGED <<db, now, reqVars, up, upst, full, res, script, cut, sockVars, clientVars>>

(* --------------------------- specifications --------------------------- *)
\* the non-streaming requests of the backend on one conversation, side by side
Next ==
    \/ \E r \in Req, c \in ChatIdInputs, u \in UserInputs, m \in MessageInputs,
          md \in ModelInputs : ChatStart(r, c, u, m, md)
    \/ \E r \in Req : ChatFound(r)
    \/ \E r \in Req : ChatUserSaved(r)
    \/ \E r \in Req, o \in ProviderOutcomes : ChatProvider(r, o)
    \/ \E r \in Req : ChatReplySaved(r)
    \/ \E r \in Req : ChatErrorSaved(r)
    \/ \E r \in Req, c \in ChatIdInputs, u \in UserInputs, m \in MessageInputs,
          ro \in RoleInputs, md \in ModelInputs, t \in TokenInputs :
          AddStart(r, c, u, m, ro, md, t)
    \/ \E r \in Req : AddFound(r)
    \/ \E r \in Req : AddSaved(r)
    \/ \E r \in Req, c \in ChatIdInputs, u \in UserInputs, t \in TitleInputs :
          Rename(r, c, u, t)
    \/ \E r \in Req, c \in ChatIdInputs, u \in UserInputs : Delete(r, c, u)

Spec == Init /\ [][Next]_vars

\* one streaming session whose provider stream is cut into reads anywhere
NextStream ==
    \/ \E m \in MessageInputs : StreamStart(1, "c1", "u1", m, NoModel)
    \/ StreamFound(1)
    \/ StreamUserSaved(1)
    \/ \E fs \in Scripts : StreamOpen(1, fs)
    \/ StreamRejected(1)
    \/ \E n \in 1..(3 * (MaxFrames + 1)) : StreamData(1, n)
    \/ StreamError(1)
    \/ StreamClose(1)
    \/ StreamSaved(1)
    \/ ClientDisconnect(1)

SpecStream == Init /\ [][NextStream]_vars

\* the scripts of the provider stream in front of the socket room
ShortScripts ==
    { <<Frame("delta", <<"h">>), Frame("delta", <<"i">>), Frame("done", <<>>)>>,
      <<Frame("delta", <<"h">>)>> }

\* one request at a time in front of the sessions of the socket room; the
\* provider stream is read one frame at a time
NextRelay ==
    \/ \E s \in Sessions : JoinChat(s)
    \/ \E s \in Sessions : LeaveChat(s)
    \/ \E m \in MessageInputs : ChatStart(1, "c1", "u1", m, NoModel)
    \/ ChatFound(1)
    \/ ChatUserSaved(1)
    \/ \E o \in ProviderOutcomes : ChatProvider(1, o)
    \/ ChatReplySaved(1)
    \/ ChatErrorSaved(1)
    \/ \E ro \in RoleInputs : AddStart(1, "c1", "u1", <<"h", "i">>, ro, "openai/gpt-4", 2)
    \/ AddFound(1)
    \/ AddSaved(1)
    \/ \E m \in MessageInputs : StreamStart(1, "c1", "u1", m, NoModel)
    \/ StreamFound(1)
    \/ StreamUserSaved(1)
    \/ \E fs \in ShortScripts : StreamOpen(1, fs)
    \/ StreamRejected(1)
    \/ StreamData(1, IF Len(up[1]) < 3 THEN Len(up[1]) ELSE 3)
    \/ StreamError(1)
    \/ StreamClose(1)
    \/ StreamSaved(1)

SpecRelay == Init /\ [][NextRelay]_vars

\* callers that each append to the conversation, side by side
NextAppend ==
    \/ \E r \in Req, ro \in Roles, t \in TokenInputs :
          AddStart(r, "c1", "u1", <<"h", "i">>, ro, "openai/gpt-4", t)
    \/ \E r \in Req : AddFound(r)
    \/ \E r \in Req : AddSaved(r)
    \/ \E r \in Req : ChatStart(r, "c1", "u1", <<"h", "i">>, NoModel)
    \/ \E r \in Req : ChatFound(r)
    \/ \E r \in Req : ChatUserSaved(r)
    \/ \E r \in Req, o \in ProviderOutcomes : ChatProvider(r, o)
    \/ \E r \in Req : ChatReplySaved(r)
    \/ \E r \in Req : ChatErrorSaved(r)

SpecAppend == Init /\ [][NextAppend]_vars

\* what the provider answers to the non-streaming call when it generates
\* the text "hi": usage.total_tokens as the provider counts it, or no usage
PathOutcomes ==
    { [kind |-> "ok", content |-> <<"h", "i">>, tokens |-> 3, error |-> "none"],
      [kind |-> "ok", content |-> <<"h", "i">>, tokens |-> 0, error |-> "none"],
      [kind |-> "http-error", content |-> <<>>, tokens |-> 0, error |-> "rate limited"] }

\* the same message sent through POST /chat (request 1) and through
\* POST /stream (request 2); the provider stream is read one frame at a time
NextPaths ==
    \/ \E md \in {NoModel, "openai/gpt-4"} : ChatStart(1, "c1", "u1", <<"h", "i">>, md)
    \/ ChatFound(1)
    \/ ChatUserSaved(1)
    \/ \E o \in PathOutcomes : ChatProvider(1, o)
    \/ ChatReplySaved(1)
    \/ ChatErrorSaved(1)
    \/ \E md \in {NoModel, "openai/gpt-4"} : StreamStart(2, "c1", "u1", <<"h", "i">>, md)
    \/ StreamFound(2)
    \/ StreamUserSaved(2)
    \/ \E fs \in ShortScripts : StreamOpen(2, fs)
    \/ StreamRejected(2)
    \/ StreamData(2, IF Len(up[2]) < 3 THEN Len(up[2]) ELSE 3)
    \/ StreamError(2)
    \/ StreamClose(2)
    \/ StreamSaved(2)

SpecPaths == Init /\ [][NextPaths]_vars

\* the log of a conversation after one POST /chat "yo" that the provider
\* answered with "yo" (3 tokens): the title was not derived, the total was
\* recomputed when the reply was saved
StoredLog ==
    << Msg(<<0, 1>>, "user", <<"y", "o">>, NoModel, 1, 0),
       Msg(<<0, 2>>, "assistant", <<"y", "o">>, DefaultModel, 3, 0) >>

InitLife ==
    /\ \E ms \in {<<>>, StoredLog} :
           db = [messages |-> ms, totalTokens |-> SumTokens(ms), title |-> NewChatTitle,
                 model |-> DefaultModel, isActive |-> TRUE, lastActivity |-> 0]
    /\ Idle

\* every operation of the owner on the conversation, side by side: request
\* 1 sends, streams (read one frame at a time), adds a message, renames or
\* deletes; the other requests add a message, rename or delete
NextLife ==
    \/ ChatStart(1, "c1", "u1", <<"h", "i">>, NoModel)
    \/ ChatFound(1)
    \/ ChatUserSaved(1)
    \/ \E o \in ProviderOutcomes : ChatProvider(1, o)
    \/ ChatReplySaved(1)
    \/ ChatErrorSaved(1)
    \/ StreamStart(1, "c1", "u1", <<"h", "i">>, NoModel)
    \/ StreamFound(1)
    \/ StreamUserSaved(1)
    \/ \E fs \in ShortScripts : StreamOpen(1, fs)
    \/ StreamRejected(1)
    \/ StreamData(1, IF Len(up[1]) < 3 THEN Len(up[1]) ELSE 3)
    \/ StreamError(1)
    \/ StreamClose(1)
    \/ StreamSaved(1)
    \/ \E r \in Req : AddStart(r, "c1", "u1", <<"h", "i">>, "user", NoModel, 2)
    \/ \E r \in Req : AddFound(r)
    \/ \E r \in Req : AddSaved(r)
    \/ \E r \in Req : Rename(r, "c1", "u1", <<"t">>)
    \/ \E r \in Req : Delete(r, "c1", "u1")

SpecLife == InitLife /\ [][NextLife]_vars

\* the logs a conversation may hold before a request arrives: user and
\* assistant messages in turn, the same behind a leading system message,
\* and the same with every third message a system message
Patterns == {"talk", "lead", "mixed"}

RoleAt(p, i) ==
    IF (p = "lead" /\ i = 1) \/ (p = "mixed" /\ i % 3 = 1) THEN "system"
    ELSE IF i % 2 = 0 THEN "user" ELSE "assistant"

LogOf(n, p) ==
    [i \in 1..n |->
        Msg(<<0, i>>, RoleAt(p, i), <<ToString(i)>>,
            IF RoleAt(p, i) = "assistant" THEN DefaultModel ELSE NoModel, 0, 0)]

InitContext ==
    /\ \E n \in 0..MaxLog, p \in Patterns :
           db = [messages |-> LogOf(n, p), totalTokens |-> 0, title |-> NewChatTitle,
                 model |-> DefaultModel, isActive |-> TRUE, lastActivity |-> 0]
    /\ Idle

\* POST /chat (request 1) and POST /stream (request 2) up to their provider
\* call, on a conversation that holds a log already
NextContext ==
    \/ ChatStart(1, "c1", "u1", <<"h", "i">>, NoModel)
    \/ ChatFound(1)
    \/ ChatUserSaved(1)
    \/ StreamStart(2, "c1", "u1", <<"h", "i">>, NoModel)
    \/ StreamFound(2)
    \/ StreamUserSaved(2)

SpecContext == InitContext /\ [][NextContext]_vars

\* messages of every role, with and without a model, added side by side
\* with one send or streaming request
NextRoles ==
    \/ \E r \in Req, ro \in RoleInputs, md \in {NoModel, "openai/gpt-4"} :
          AddStart(r, "c1", "u1", <<"h", "i">>, ro, md, 2)
    \/ \E r \in Req : AddFound(r)
    \/ \E r \in Req : AddSaved(r)
    \/ ChatStart(1, "c1", "u1", <<"h", "i">>, NoModel)
    \/ ChatFound(1)
    \/ ChatUserSaved(1)
    \/ \E o \in ProviderOutcomes : ChatProvider(1, o)
    \/ ChatReplySaved(1)
    \/ ChatErrorSaved(1)
    \/ StreamStart(1, "c1", "u1", <<"h", "i">>, NoModel)
    \/ StreamFound(1)
    \/ StreamUserSaved(1)
    \/ \E fs \in ShortScripts : StreamOpen(1, fs)
    \/ StreamRejected(1)
    \/ StreamData(1, IF Len(up[1]) < 3 THEN Len(up[1]) ELSE 3)
    \/ StreamError(1)
    \/ StreamClose(1)
    \/ StreamSaved(1)

SpecRoles == Init /\ [][NextRoles]_vars

\* a message of one character more than the title keeps
LongText == [i \in 1..(TitleLimit + 1) |-> "x"]

TitleContents == {<<"h", "i">>, <<"y", "o">>, LongText}

\* user and system messages added side by side with renames of the owner
NextTitle ==
    \/ \E r \in Req, c \in TitleContents, ro \in {"user", "system"} :
          AddStart(r, "c1", "u1", c, ro, NoModel, 0)
    \/ \E r \in Req : AddFound(r)
    \/ \E r \in Req : AddSaved(r)
    \/ \E r \in Req : Rename(r, "c1", "u1", <<"t">>)

SpecTitle == Init /\ [][NextTitle]_vars

\* the clock Date.now() reads advances
Tick ==
    /\ now < MaxTime
    /\ now' = now + 1
    /\ UNCHANGED <<db, reqVars, streamVars, sockVars, clientVars>>

\* appends, renames and deletes of the owner side by side while the clock
\* advances; request 1 may also send through POST /chat
NextClock ==
    \/ Tick
    \/ \E r \in Req : AddStart(r, "c1", "u1", <<"h", "i">>, "user", NoModel, 2)
    \/ \E r \in Req : AddFound(r)
    \/ \E r \in Req : AddSaved(r)
    \/ ChatStart(1, "c1", "u1", <<"h", "i">>, NoModel)
    \/ ChatFound(1)
    \/ ChatUserSaved(1)
    \/ \E o \in PathOutcomes : ChatProvider(1, o)
    \/ ChatReplySaved(1)
    \/ ChatErrorSaved(1)
    \/ \E r \in Req : Rename(r, "c1", "u1", <<"t">>)
    \/ \E r \in Req : Delete(r, "c1", "u1")

SpecClock == Init /\ [][NextClock]_vars

\* the requests a caller may make: a valid one of the owner, and one for
\* each reason a request is refused: chat id that is no ObjectId, chat id
\* of no conversation, caller who is not the owner, empty message, unknown
\* model
Case(chatId, user, message, model) ==
    [chatId |-> chatId, user |-> user, message |-> message, model |-> model]
GuardCases ==
    { Case("c1", "u1", <<"h", "i">>, NoModel),
      Case("zz", "u1", <<"h", "i">>, NoModel),
      Case("c9", "u1", <<"h", "i">>, NoModel),
      Case("c1", "u2", <<"h", "i">>, NoModel),
      Case("c1", "u1", <<>>, NoModel),
      Case("c1", "u1", <<"h", "i">>, "bogus") }

\* every route of the backend, called with each of the cases, side by
\* side: request 1 calls any route, the other requests all but the two
\* provider routes
NextGuard ==
    \/ \E c \in GuardCases : ChatStart(1, c.chatId, c.user, c.message, c.model)
    \/ ChatFound(1)
    \/ ChatUserSaved(1)
    \/ \E o \in PathOutcomes : ChatProvider(1, o)
    \/ ChatReplySaved(1)
    \/ ChatErrorSaved(1)
    \/ \E c \in GuardCases : StreamStart(1, c.chatId, c.user, c.message, c.model)
    \/ StreamFound(1)
    \/ StreamUserSaved(1)
    \/ \E fs \in ShortScripts : StreamOpen(1, fs)
    \/ StreamRejected(1)
    \/ StreamData(1, IF Len(up[1]) < 3 THEN Len(up[1]) ELSE 3)
    \/ StreamSaved(1)
    \/ \E r \in Req, c \in GuardCases :
          AddStart(r, c.chatId, c.user, c.message, "user", c.model, 0)
    \/ \E r \in Req : AddFound(r)
    \/ \E r \in Req : AddSaved(r)
    \/ \E r \in Req, c \in GuardCases : Rename(r, c.chatId, c.user, c.message)
    \/ \E r \in Req, c \in GuardCases : Delete(r, c.chatId, c.user)
    \/ \E r \in Req, c \in GuardCases : Get(r, c.chatId, c.user)

SpecGuard == Init /\ [][NextGuard]_vars

(* ------------------------------- claims ------------------------------- *)
\* the messages of ms that request r pushed, in order
Own(ms, r) == SelectSeqBy(ms, {i \in DOMAIN ms : ms[i].id[1] = r})

\* the assistant messages of ms that request r pushed, in order
OwnReplies(ms, r) ==
    SelectSeqBy(ms, {i \in DOMAIN ms : ms[i].id[1] = r /\ ms[i].role = "assistant"})

\* C1: in every stored state of the conversation, totalTokens equals the sum
\* of the tokens of the stored messages (stated as claimed; POST /chat saves
\* the user message without recomputing the total)
C1_TotalTokensIsSum == db.totalTokens = SumTokens(db.messages)

\* C2: when callers append to the same conversation side by side (find, push,
\* save), the stored log holds exactly the messages whose save was applied:
\* every message a caller pushed and saved is stored once, in the caller's
\* order, and no stored message appears twice
C2_ConcurrentAppendsAllKept ==
    /\ \A r \in Req : Own(db.messages, r) \o pend[r] = Own(loc[r].messages, r)
    /\ \A i, j \in DOMAIN db.messages :
           db.messages[i].id = db.messages[j].id => i = j

\* two callers each read the conversation before the other's save was
\* applied, and both messages are stored
C2_Witness ==
    \E r1, r2 \in Req :
        /\ r1 # r2
        /\ http[r1].status = 201 /\ http[r2].status = 201
        /\ Own(loc[r1].messages, r2) = <<>> /\ Own(loc[r2].messages, r1) = <<>>
        /\ Len(Own(db.messages, r1)) = 1 /\ Len(Own(db.messages, r2)) = 1

\* the provider call of r failed or its response is malformed (no choices,
\* or a choice without content)
ProviderFailed(r) ==
    \/ reply[r].kind \in {"http-error", "no-choices"}
    \/ reply[r].kind = "ok" /\ reply[r].content = <<>>

\* C10: when the provider call of POST /chat fails or returns a malformed
\* response, exactly one placeholder assistant message (the apology text,
\* tokens 0) is appended and saved and published, and the caller gets
\* status 500 with the error (stated as claimed; a response without content
\* leaves nothing appended)
C10_FailureLeavesPlaceholder ==
    \A r \in Req :
        (pc[r] = "done" /\ ProviderFailed(r)) =>
            /\ http[r].status = 500
            /\ http[r].body = "AI service temporarily unavailable"
            /\ Len(OwnReplies(db.messages, r)) = 1
            /\ OwnReplies(db.messages, r)[1].content = ApologyText
            /\ OwnReplies(db.messages, r)[1].tokens = 0
            /\ \E i \in DOMAIN produced :
                   produced[i].message = OwnReplies(db.messages, r)[1]

RECURSIVE Concat(_)
\* the contents of the delta frames of fs, one after the other
Concat(fs) ==
    IF fs = <<>> THEN <<>>
    ELSE (IF Head(fs).k = "delta" THEN Head(fs).c ELSE <<>>) \o Concat(Tail(fs))

\* the partial events a response should carry for the frames fs
DeltaEvents(fs) ==
    LET ds == SelectSeqBy(fs, {i \in DOMAIN fs : fs[i].k = "delta" /\ fs[i].c # <<>>})
    IN [i \in DOMAIN ds |-> Event("partial", ds[i].c, NoMsg)]

\* the partial events among the events ws
Partials(ws) == SelectSeqBy(ws, {i \in DOMAIN ws : ws[i].type = "partial"})

\* the frames of fs before its first sentinel
BeforeDone(fs) ==
    LET ds == {i \in DOMAIN fs : fs[i].k = "done"} IN
    IF ds = {} THEN fs
    ELSE SubSeq(fs, 1, (CHOOSE i \in ds : \A j \in ds : i <= j) - 1)

HasDone(fs) == \E i \in DOMAIN fs : fs[i].k = "done"

\* valid data frames followed by the sentinel, and nothing else
DeltasThenDone(fs) ==
    /\ fs # <<>>
    /\ fs[Len(fs)].k = "done"
    /\ \A i \in 1..(Len(fs) - 1) : fs[i].k = "delta"

\* the frames of r's stream read so far, when every read ended with a frame
Delivered(r) ==
    LET k == CHOOSE k \in 0..Len(script[r]) :
                 Bytes(SubSeq(script[r], 1, k), 1) \o up[r] = Bytes(script[r], 1)
    IN SubSeq(script[r], 1, k)

RECURSIVE FeedWhole(_, _, _, _)
\* the data handler run on the frames fs, each arriving whole in its own read
FeedWhole(fs, i, st, r) ==
    IF fs = <<>> THEN st
    ELSE FeedWhole(Tail(fs), i + 1, OnData(FrameBytes(Head(fs), i), st, r), r)

\* the handler's state when r's stream was opened
OpenState(r) ==
    [full |-> <<>>, res |-> [NoRes EXCEPT !.head = TRUE],
     doc |-> [loc[r] EXCEPT !.messages =
                SelectSeqBy(@, {i \in DOMAIN @ :
                                  ~(@[i].id[1] = r /\ @[i].role = "assistant")})],
     pend |-> <<>>, dirty |-> {}, flight |-> NoFlight]

\* C4: the result of the streaming decoder does not depend on how the byte
\* stream is cut into reads: once all bytes are read, the assembled text and
\* the events written are those of the same frames arriving whole (stated
\* as claimed, for streams that end with their sentinel or have none; the
\* handler keeps no partial line between reads)
C4_ChunkingIndependent ==
    \A r \in Req :
        (pc[r] = "streaming" /\ up[r] = <<>> /\ upst[r] # "errored"
           /\ BeforeDone(script[r]) \in {script[r], SubSeq(script[r], 1, Len(script[r]) - 1)}) =>
            /\ full[r] = FeedWhole(script[r], 1, OpenState(r), r).full
            /\ res[r].writes = FeedWhole(script[r], 1, OpenState(r), r).res.writes

\* C5: a data frame whose payload does not parse is skipped and the session
\* goes on: with every frame read whole, before the sentinel the response
\* is open and the assembled text and the deltas written are those of the
\* valid frames read so far; from the sentinel on the reply pushed, and
\* stored, is the concatenation of the valid frames before it
C5_MalformedFrameSkipped ==
    \A r \in Req :
        (pc[r] = "streaming" /\ ~cut[r] /\ upst[r] # "errored") =>
            IF ~HasDone(Delivered(r))
            THEN /\ ~res[r].ended
                 /\ full[r] = Concat(Delivered(r))
                 /\ Partials(res[r].writes) = DeltaEvents(Delivered(r))
                 /\ OwnReplies(loc[r].messages, r) = <<>>
            ELSE /\ Partials(res[r].writes) = DeltaEvents(BeforeDone(Delivered(r)))
                 /\ OwnReplies(loc[r].messages, r)[1].content
                        = Concat(BeforeDone(Delivered(r)))
                 /\ OwnReplies(db.messages, r) # <<>> =>
                        OwnReplies(db.messages, r)[1].content
                            = Concat(BeforeDone(Delivered(r)))

\* a malformed frame arrived between two valid ones, then the sentinel, and
\* the text of the two valid frames is stored
C5_Witness ==
    \E r \in Req :
        /\ script[r] = MalformedBetween
        /\ ~cut[r] /\ up[r] = <<>>
        /\ Len(Partials(res[r].writes)) = 2
        /\ Len(OwnReplies(db.messages, r)) = 1
        /\ OwnReplies(db.messages, r)[1].content = <<"h", "i">>

\* C6: on the sentinel the decoder stops: the assembled text is appended
\* once per session and no frame after the sentinel causes another append,
\* another write to the client or a change of the assembled text (stated as
\* claimed; the handler stays subscribed after the sentinel)
C6_SentinelStopsDecoder ==
    \A r \in Req :
        (pc[r] = "streaming" /\ upst[r] # "errored") =>
            /\ Len(OwnReplies(loc[r].messages, r)) <= 1
            /\ Len(OwnReplies(db.messages, r)) <= 1
            /\ res[r].late = 0
            /\ OwnReplies(loc[r].messages, r) # <<>> =>
                   full[r] = OwnReplies(loc[r].messages, r)[1].content

\* C7: if the caller of a streaming session disconnects before the sentinel
\* was received, no assistant message is ever stored for that attempt
\* (stated as claimed; the route does not listen for the caller's close)
C7_DisconnectStoresNothing ==
    \A r \in Req : ~conn[r] => OwnReplies(db.messages, r) = <<>>

\* C8: a session subscribed to the conversation receives every full-message
\* and partial-delta event produced for it since the session joined, in the
\* order produced (stated as claimed; POST /stream writes its events to the
\* caller's response only)
C8_SubscribersGetEveryEvent ==
    \A s \in subs : inbox[s] = SubSeq(produced, joinAt[s] + 1, Len(produced))

\* C9: when the provider stream raises a transport error during a session
\* (or the streaming call is rejected), the response is ended, the error
\* event is its last event, nothing is written after it, and no assistant
\* message built from the text assembled so far is pushed, saved or stored
C9_TransportErrorEndsSession ==
    \A r \in Req :
        /\ (upst[r] = "errored"
              /\ \A i \in DOMAIN res[r].writes : res[r].writes[i].type # "done") =>
               /\ res[r].ended
               /\ res[r].writes # <<>>
               /\ res[r].writes[Len(res[r].writes)] = ErrorEvent("Streaming error")
               /\ res[r].late = 0
               /\ OwnReplies(loc[r].messages, r) = <<>>
               /\ OwnReplies(db.messages, r) = <<>>
               /\ ~flight[r].on
        /\ upst[r] = "rejected" =>
               /\ res[r].ended
               /\ res[r].writes = <<ErrorEvent("AI service error")>>
               /\ OwnReplies(db.messages, r) = <<>>

\* the stream failed after a delta had been assembled and written
C9_Witness ==
    \E r \in Req :
        /\ upst[r] = "errored"
        /\ full[r] # <<>>
        /\ Len(res[r].writes) >= 2
        /\ res[r].ended

\* the stored assistant messages that requests of the given route pushed
StoredReplies(route) ==
    {db.messages[i] : i \in {j \in DOMAIN db.messages :
        /\ db.messages[j].role = "assistant"
        /\ inp[db.messages[j].id[1]].route = route}}

\* C11: POST /chat and POST /stream store the same assistant message for the
\* same provider output: two stored replies, one of each path, that have the
\* same content and model also have the same tokens (stated as claimed;
\* POST /chat stores usage.total_tokens or 0, POST /stream stores
\* ceil(length / 4))
C11_PathsStoreSameMessage ==
    \A m1 \in StoredReplies("chat"), m2 \in StoredReplies("stream") :
        (m1.content = m2.content /\ m1.model = m2.model) =>
            /\ m1.role = m2.role
            /\ m1.tokens = m2.tokens

\* C12: every POST /chat request that passes validation (with a text that
\* is not blank) and finds the conversation has appended, when it is done,
\* its user message and then exactly one assistant message, the reply or
\* the placeholder, also when saving the reply failed inside the try block
\* (stated as claimed; a reply that fails validation leaves no assistant
\* message stored)
C12_SendAppendsUserThenOneReply ==
    \A r \in Req :
        (pc[r] = "done" /\ inp[r].route = "chat" /\ loc[r].found
           /\ inp[r].message # <<>>) =>
            LET own == Own(db.messages, r) IN
            /\ Len(own) = 2
            /\ own[1].role = "user"
            /\ own[2].role = "assistant"

RECURSIVE ConcatContent(_)
\* the contents of the events ws, one after the other
ConcatContent(ws) ==
    IF ws = <<>> THEN <<>> ELSE Head(ws).content \o ConcatContent(Tail(ws))

\* C13: in a streaming session that completes, the caller receives partial
\* events and then exactly one terminal event: the terminal event is the
\* last event of the response, every event before it is a partial delta,
\* and the message it carries has the concatenation of those deltas as its
\* content
C13_PartialsThenOneTerminal ==
    \A r \in Req :
        LET ws == res[r].writes IN
        (\E i \in DOMAIN ws : ws[i].type = "done") =>
            /\ ws[Len(ws)].type = "done"
            /\ \A i \in 1..(Len(ws) - 1) : ws[i].type = "partial"
            /\ ws[Len(ws)].message.role = "assistant"
            /\ ws[Len(ws)].message.content = ConcatContent(SubSeq(ws, 1, Len(ws) - 1))
            /\ res[r].ended

\* two deltas and the terminal event were written, and a write attempted
\* after the response was ended did not reach the caller
C13_Witness ==
    \E r \in Req :
        /\ Len(res[r].writes) = 3
        /\ res[r].writes[3].type = "done"
        /\ res[r].writes[3].message.content = <<"h", "i">>
        /\ res[r].late > 0

AppendRoutes == {"chat", "stream", "add"}

\* the not-found outcome of request r: status 404, or on the event stream
\* the error event 'Chat not found' and the end of the response
NotFound(r) ==
    IF inp[r].route = "stream"
    THEN res[r].ended /\ res[r].writes = <<ErrorEvent("Chat not found")>>
    ELSE http[r].status = 404 /\ http[r].body = "Chat not found"

\* C14: after the conversation has been soft-deleted, an append request
\* (POST /chat, POST /stream, POST /:chatId/messages) that starts and looks
\* the conversation up fails with the not-found outcome and changes
\* nothing: its start and its lookup leave the stored document as it is,
\* nothing is pushed, saved or published; and the delete itself keeps
\* the stored messages
C14_AppendAfterDeleteNotFound ==
    [][ /\ \A r \in Req :
             /\ (~db.isActive /\ pc[r] = "idle" /\ pc'[r] # "idle"
                   /\ inp'[r].route \in AppendRoutes) =>
                    /\ db' = db
                    /\ pc'[r] \in {"chat-find", "stream-find", "add-find"}
             /\ (~db.isActive /\ pc[r] \in {"chat-find", "stream-find", "add-find"}
                   /\ pc'[r] # pc[r]) =>
                    /\ pc'[r] = "done"
                    /\ NotFound(r)'
                    /\ db' = db
                    /\ loc'[r] = NoDoc /\ pend'[r] = <<>> /\ ~flight'[r].on
                    /\ produced' = produced
        /\ (db.isActive /\ ~db'.isActive) => db'.messages = db.messages
      ]_vars

\* the conversation with its two stored messages was deleted, and an
\* append request that looked it up afterwards has failed with not found
C14_Witness ==
    /\ ~db.isActive
    /\ db.messages = StoredLog
    /\ \E r \in Req : inp[r].route = "delete" /\ http[r].status = 200
    /\ \E r \in Req : inp[r].route \in AppendRoutes /\ pc[r] = "done" /\ NotFound(r)

\* C15: once the liveness flag of the conversation is cleared, its message
\* log, totalTokens and title never change again (stated as claimed; a
\* request that loaded the conversation before the delete still saves
\* its reply or placeholder afterwards)
C15_DeletedNeverChanges ==
    [][ ~db.isActive =>
          /\ db'.messages = db.messages
          /\ db'.totalTokens = db.totalTokens
          /\ db'.title = db.title ]_vars

\* C16: deleting the conversation twice leaves the stored state of one
\* delete, and the second call reports the outcome of the first: two
\* DELETE requests of the owner that are both done have the same response
\* (stated as claimed; the second call answers 404)
C16_DeleteIdempotent ==
    \A r1, r2 \in Req :
        (inp[r1].route = "delete" /\ inp[r2].route = "delete"
           /\ pc[r1] = "done" /\ pc[r2] = "done") =>
            /\ ~db.isActive
            /\ http[r1] = http[r2]

\* s is a prefix of t
IsPrefix(s, t) == Len(s) <= Len(t) /\ SubSeq(t, 1, Len(s)) = s

\* C17: the message sequence of the conversation is append-only: every
\* step of send, stream, add message, rename and delete leaves the stored
\* log a prefix of the log after the step, with every earlier message
\* unchanged in role, content, model, tokens and timestamp
C17_LogAppendOnly ==
    [][IsPrefix(db.messages, db'.messages)]_vars

\* two requests that loaded the conversation side by side have both appended
\* behind the two stored messages, and the conversation was deleted
C17_Witness ==
    /\ Len(db.messages) >= 5
    /\ SubSeq(db.messages, 1, 2) = StoredLog
    /\ \A r \in Req : Own(db.messages, r) # <<>>
    /\ \E r1, r2 \in Req : r1 # r2 /\ Own(loc[r1].messages, r2) = <<>>
                             /\ Own(loc[r2].messages, r1) = <<>>

\* C18: every stored message has a role in {user, assistant, system}; a
\* stored assistant message carries a model identifier and a stored message
\* of another role carries none; a request to add an assistant message
\* without a model stores nothing
C18_RoleAndModel ==
    /\ \A i \in DOMAIN db.messages :
           /\ db.messages[i].role \in Roles
           /\ db.messages[i].role = "assistant" => db.messages[i].model # NoModel
           /\ db.messages[i].role # "assistant" => db.messages[i].model = NoModel
    /\ \A r \in Req :
           (inp[r].route = "add" /\ inp[r].role = "assistant" /\ inp[r].model = NoModel) =>
               /\ Own(db.messages, r) = <<>>
               /\ ~flight[r].on
               /\ pc[r] = "done" => http[r].status \in {404, 500}

\* an add request for an assistant message without a model found the
\* conversation and was refused, next to a stored assistant message
C18_Witness ==
    /\ \E r \in Req :
           /\ inp[r].route = "add" /\ inp[r].role = "assistant" /\ inp[r].model = NoModel
           /\ loc[r].found /\ pc[r] = "done" /\ http[r].status = 500
           /\ Own(db.messages, r) = <<>>
    /\ \E i \in DOMAIN db.messages : db.messages[i].role = "assistant"

RECURSIVE LastNonSystem(_, _)
\* the last n messages of ms that are not system messages, in the order of
\* ms, each reduced to role and content
LastNonSystem(ms, n) ==
    IF ms = <<>> \/ n = 0 THEN <<>>
    ELSE LET m == ms[Len(ms)]
             front == SubSeq(ms, 1, Len(ms) - 1)
         IN IF m.role = "system" THEN LastNonSystem(front, n)
            ELSE Append(LastNonSystem(front, n - 1),
                        [role |-> m.role, content |-> m.content])

\* the roles and contents of a log
Shape(ms) == [i \in DOMAIN ms |-> [role |-> ms[i].role, content |-> ms[i].content]]

AtProvider(r) == pc[r] \in {"chat-provider", "stream-provider"}

\* C19: the context sent to the provider is the last min(20, k) of the k
\* non-system messages of the conversation the request holds, in log order,
\* each reduced to role and content; computing it leaves the log the
\* request holds (the log found and the request's user message) and the
\* stored fields as they were; and two requests, one of each path, that
\* hold the same log send the same context
C19_ContextWindow ==
    /\ \A r \in Req :
           AtProvider(r) =>
               /\ api[r].messages = LastNonSystem(loc[r].messages, ContextLimit)
               /\ \E n \in 0..MaxLog, p \in Patterns :
                      /\ Own(loc[r].messages, 0) = LogOf(n, p)
                      /\ Own(db.messages, 0) = LogOf(n, p)
               /\ Len(Own(loc[r].messages, r)) = 1
               /\ Own(db.messages, r) = Own(loc[r].messages, r)
               /\ db.title = NewChatTitle /\ db.totalTokens = 0 /\ db.isActive
    /\ \A r1, r2 \in Req :
           (AtProvider(r1) /\ AtProvider(r2)
              /\ Shape(loc[r1].messages) = Shape(loc[r2].messages)) =>
               api[r1].messages = api[r2].messages

\* both paths hold the same log of more than 20 non-system messages behind
\* a system message, and both sent its last 20
C19_Witness ==
    /\ AtProvider(1) /\ AtProvider(2)
    /\ Shape(loc[1].messages) = Shape(loc[2].messages)
    /\ loc[1].messages[1].role = "system"
    /\ Len(loc[1].messages) > ContextLimit + 1
    /\ Len(api[1].messages) = ContextLimit
    /\ api[2].messages[ContextLimit].content = <<"h", "i">>

\* the title the first user message with the given content gives
TitleOf(content) ==
    IF Len(content) <= TitleLimit THEN content
    ELSE SubSeq(content, 1, TitleLimit) \o Ellipsis

HasUser(ms) == \E i \in DOMAIN ms : ms[i].role = "user"

FirstUser(ms) ==
    ms[CHOOSE i \in DOMAIN ms : ms[i].role = "user"
                                  /\ \A j \in 1..(i - 1) : ms[j].role # "user"]

\* C20: when the first user message is stored in a conversation whose
\* title is still 'New Chat', through any append path and also behind
\* system or assistant messages, the title becomes the content of that
\* message, cut to 50 characters and '...' when it is longer (stated as
\* claimed; only POST /:chatId/messages derives the title, and only for
\* the very first message of the log)
C20_FirstUserMessageSetsTitle ==
    [][ (db.title = NewChatTitle /\ ~HasUser(db.messages) /\ HasUser(db'.messages)) =>
            db'.title = TitleOf(FirstUser(db'.messages).content) ]_vars

\* C21: the title is derived at most once: once a user message is stored
\* (and the title with it), no later append changes the title, also when
\* the later message is a user message and also after a rename (stated as
\* claimed; two add requests that both loaded the empty conversation each
\* derive the title from their own message)
C21_TitleDerivedOnce ==
    [][ (HasUser(db.messages) /\ db'.messages # db.messages) =>
            db'.title = db.title ]_vars

\* C22: lastActivity never decreases; every step that appends a message
\* sets it to a time read by the appending request, not after the present;
\* a step that appends nothing leaves it unchanged (stated as claimed; the
\* pre-save hook reads the clock when save() is called, and two saves
\* called in one order may be applied in the other)
C22_LastActivityMonotone ==
    [][ /\ db'.lastActivity >= db.lastActivity
        /\ db'.messages # db.messages => db'.lastActivity <= now
        /\ db'.messages = db.messages => db'.lastActivity = db.lastActivity ]_vars

FindStates == {"chat-find", "stream-find", "add-find"}

\* the error a refused request is answered with: 400 for a body that fails
\* validation, not found for a conversation that is missing, not the
\* caller's or deleted, 500 where the route has no validator for the chat id
Refused(r) ==
    \/ http[r].status \in {400, 404}
    \/ http[r].status = 500 /\ ~isMongoId(inp[r].chatId)
    \/ inp[r].route = "stream" /\ NotFound(r)

\* nothing of the conversation, the room or request r's provider call
\* changes in the step
NoEffect(r) ==
    /\ db' = db
    /\ produced' = produced /\ inbox' = inbox
    /\ api'[r] = NoApi /\ reply'[r] = NoReply
    /\ ~flight'[r].on /\ upst'[r] = "none"

\* C23: a request refused for invalid input or because the conversation is
\* missing, not the caller's or deleted is answered with its error straight
\* from validation or from the lookup, and the step leaves the conversation
\* as it was, publishes nothing and calls no provider; a request whose body
\* is invalid does not get past validation, and one whose conversation is
\* missing, not the caller's or deleted does not get past the lookup
C23_RefusedRequestNoEffect ==
    [][ \A r \in Req :
          /\ (pc[r] # "done" /\ pc'[r] = "done" /\ Refused(r)') =>
                 /\ pc[r] \in {"idle"} \cup FindStates
                 /\ NoEffect(r)
          /\ (pc[r] = "idle" /\ pc'[r] \in {"chat-find", "stream-find"}) =>
                 /\ isMongoId(inp'[r].chatId)
                 /\ inp'[r].message # <<>>
                 /\ inp'[r].model \in {NoModel} \cup AVAILABLE_MODELS
          /\ (pc[r] = "idle" /\ pc'[r] = "add-find") => inp'[r].message # <<>>
          /\ (pc[r] \in FindStates /\ pc'[r] # pc[r]
                /\ (inp[r].chatId # "c1" \/ inp[r].user # "u1" \/ ~db.isActive)) =>
                 /\ pc'[r] = "done"
                 /\ Refused(r)'
                 /\ NoEffect(r)
      ]_vars

\* next to a stored message, a request for a conversation that does not
\* exist was answered 404 by an append route
C23_Witness ==
    /\ db.messages # <<>>
    /\ \E r \in Req :
           /\ inp[r].route \in AppendRoutes /\ inp[r].chatId = "c9"
           /\ pc[r] = "done" /\ Refused(r)
           /\ Own(db.messages, r) = <<>>

\* C24: every operation (get, send, stream, add message, rename, delete)
\* of a caller who is not the owner leaves the conversation as it was,
\* publishes nothing, and is answered not found with none of the
\* conversation's content
C24_OnlyOwner ==
    [][ \A r \in Req :
          (inp'[r].user # "u1" /\ inp'[r].route # "none" /\ pc'[r] # pc[r]) =>
              /\ NoEffect(r)
              /\ loc'[r] = NoDoc
              /\ pc'[r] = "done" =>
                     /\ NotFound(r)'
                     /\ http'[r].body \notin {"chat", "success"}
                     /\ \A i \in DOMAIN res'[r].writes :
                            res'[r].writes[i].type = "error"
      ]_vars

\* next to a stored message, a read and a delete of a caller who is not the
\* owner were answered not found, and the conversation is still active
C24_Witness ==
    /\ db.messages # <<>> /\ db.isActive
    /\ \E r \in Req :
           /\ inp[r].user = "u2" /\ inp[r].route \in {"get", "delete"}
           /\ pc[r] = "done" /\ NotFound(r)

\* a streaming session under fair scheduling: a callback or a continuation
\* that stays ready to run is eventually run by the event loop
StreamCallbacks ==
    \/ StreamFound(1)
    \/ StreamUserSaved(1)
    \/ \E n \in 1..(3 * (MaxFrames + 1)) : StreamData(1, n)
    \/ StreamSaved(1)

\* every step of the session changes one of these
sched == <<pc, up, upst, flight, conn>>

SpecStreamFair == Init /\ [][NextStream]_vars /\ WF_sched(StreamCallbacks)

\* the attempt of r was ended by a failure of the provider call
FailureEnded(r) ==
    \/ pc[r] = "done" /\ reply[r].kind = "http-error"
    \/ upst[r] \in {"rejected", "errored"}

\* the caller of r was told the cause
CauseReported(r) ==
    \/ http[r].status = 500 /\ http[r].error # "none"
    \/ /\ res[r].writes # <<>>
       /\ res[r].writes[Len(res[r].writes)].type = "error"

\* C26: whenever a provider failure ends a send-message attempt, on
\* POST /stream as on POST /chat, a placeholder assistant message is stored
\* in the conversation and published to the room, and the cause is reported
\* to the caller (stated as claimed; the error handlers of POST /stream store
\* and publish nothing)
C26_FailureLeavesPlaceholderOnBothPaths ==
    \A r \in Req :
        FailureEnded(r) =>
            /\ CauseReported(r)
            /\ OwnReplies(db.messages, r) # <<>>
            /\ OwnReplies(db.messages, r)[1].content = ApologyText
            /\ \E i \in DOMAIN produced :
                   /\ produced[i].type = "new-message"
                   /\ produced[i].message = OwnReplies(db.messages, r)[1]

\* C27: the messages a request sends to the provider are the trailing
\* window of the stored log at the moment its own user message is stored
\* and the provider is called, also when another request appends to the
\* conversation side by side (stated as claimed; the window is cut from the
\* document the handler read before its save)
C27_ContextIsStoredSnapshot ==
    [][ \A r \in Req :
            api'[r] # api[r] =>
                /\ api'[r].messages = apiMessages(db'.messages)
                /\ api'[r].messages # <<>>
                /\ api'[r].messages[Len(api'[r].messages)] =
                       [role |-> "user", content |-> inp[r].message] ]_vars

\* C28: on POST /stream, when the terminal event with the full message was
\* written to the caller, the save of that message has completed: the
\* message is stored and no save is under way (stated as claimed; save() is
\* called without await before the event is written)
C28_DoneOnlyAfterSave ==
    \A r \in Req :
        \A i \in DOMAIN res[r].writes :
            res[r].writes[i].type = "done" =>
                /\ ~flight[r].on
                /\ \E j \in DOMAIN db.messages :
                       db.messages[j] = res[r].writes[i].message

\* C29: once the provider stream of a session has finished (the call was
\* rejected, the stream raised an error, or it closed), the response to the
\* caller is eventually ended (stated as claimed; no handler listens for the
\* end of a stream that closes without the sentinel)
C29_SessionEventuallyEnds ==
    \A r \in Req :
        (upst[r] \in {"rejected", "errored", "closed"}) ~> res[r].ended

(* ------------------------------ chat view ----------------------------- *)
\* useEffect([chatId]) of the chat view: fetchChat() sends GET /:chatId,
\* joinChat(chatId) emits 'join-chat' and the 'new-message' handler is set
ViewOpen(s) ==
    /\ fetch[s].st = "none"
    /\ fetch' = [fetch EXCEPT ![s] = [st |-> "sent", messages |-> <<>>]]
    /\ UNCHANGED <<db, now, reqVars, streamVars, sockVars, shown, seen, auth, storage, calls>>

\* the 'join-chat' of the view arrives at the server
ViewJoined(s) ==
    /\ fetch[s].st # "none"
    /\ JoinChat(s)

\* GET /:chatId runs Chat.findOne and answers with the document it read
FetchServed(s) ==
    /\ fetch[s].st = "sent"
    /\ fetch' = [fetch EXCEPT ![s] =
                    IF findOne.found
                    THEN [st |-> "answered", messages |-> findOne.messages]
                    ELSE [st |-> "failed", messages |-> <<>>]]
    /\ UNCHANGED <<db, now, reqVars, streamVars, sockVars, shown, seen, auth, storage, calls>>

\* fetchChat resumes with the response: setMessages(chatData.messages || [])
FetchApplied(s) ==
    /\ fetch[s].st = "answered"
    /\ shown' = [shown EXCEPT ![s] = fetch[s].messages]
    /\ fetch' = [fetch EXCEPT ![s].st = "done"]
    /\ UNCHANGED <<db, now, reqVars, streamVars, sockVars, seen, auth, storage, calls>>

\* prev.some(msg => msg.timestamp === data.message.timestamp &&
\*                  msg.content === data.message.content)
exists(prev, m) ==
    \E i \in DOMAIN prev : prev[i].ts = m.ts /\ prev[i].content = m.content

\* setMessages(prev => exists ? prev : [...prev, data.message])
AppendNew(prev, m) == IF exists(prev, m) THEN prev ELSE Append(prev, m)

\* the 'new-message' handler of the view runs for the next received event
OnNewMessage(s) ==
    /\ fetch[s].st # "none"
    /\ seen[s] < Len(inbox[s])
    /\ seen' = [seen EXCEPT ![s] = @ + 1]
    /\ shown' = [shown EXCEPT ![s] = AppendNew(@, inbox[s][seen[s] + 1].message)]
    /\ UNCHANGED <<db, now, reqVars, streamVars, sockVars, fetch, auth, storage, calls>>

\* one chat view open on the conversation while callers append to it and
\* the clock advances
NextView ==
    \/ ViewOpen("s1")
    \/ ViewJoined("s1")
    \/ FetchServed("s1")
    \/ FetchApplied("s1")
    \/ OnNewMessage("s1")
    \/ Tick
    \/ \E r \in Req, m \in {<<"h", "i">>, <<"y", "o">>} :
          AddStart(r, "c1", "u1", m, "user", NoModel, 1)
    \/ \E r \in Req : AddFound(r)
    \/ \E r \in Req : AddSaved(r)

SpecView == Init /\ [][NextView]_vars

\* the view of s has its history, every request has finished and every
\* event sent to s was handled
Settled(s) ==
    /\ fetch[s].st = "done"
    /\ s \in subs
    /\ seen[s] = Len(inbox[s])
    /\ \A r \in Req : pc[r] \in {"idle", "done"}

\* the position of the message with this id in the stored log
PosInLog(id) == CHOOSE j \in DOMAIN db.messages : db.messages[j].id = id

\* C25: for a client viewing the conversation, every message appended and
\* published while it views is in the displayed list exactly once and the
\* displayed list follows the log order, however the history response and
\* the socket events interleave and also for distinct messages with the same
\* content and timestamp (stated as claimed; the response replaces the list
\* and the handler drops a message equal in content and timestamp to a
\* shown one)
C25_ViewShowsEveryMessageOnce ==
    \A s \in Sessions :
        Settled(s) =>
            /\ \A i \in DOMAIN inbox[s] :
                   Cardinality({j \in DOMAIN shown[s] :
                                   shown[s][j].id = inbox[s][i].message.id}) = 1
            /\ \A j, k \in DOMAIN shown[s] :
                   j < k => PosInLog(shown[s][j].id) < PosInLog(shown[s][k].id)

(* ------------------------------ auth state ---------------------------- *)
\* { ...a, ...b }: a new object with the fields of a overridden by those of b
Spread(a, b) ==
    [null |-> FALSE,
     id |-> IF b.id # "undefined" THEN b.id ELSE a.id,
     prefs |-> IF b.prefs # "undefined" THEN b.prefs ELSE a.prefs]

Action(type, user, token, error, loading) ==
    [type |-> type, user |-> user, token |-> token, error |-> error, loading |-> loading]

\* authReducer(state, action): the next state
authReducer(state, action) ==
    CASE action.type = "AUTH_START" -> [state EXCEPT !.loading = TRUE, !.error = "null"]
      [] action.type = "AUTH_SUCCESS" ->
            [state EXCEPT !.user = action.user, !.token = action.token,
                          !.loading = FALSE, !.error = "null"]
      [] action.type = "AUTH_FAILURE" ->
            [state EXCEPT !.user = NoUser, !.token = NoToken,
                          !.loading = FALSE, !.error = action.error]
      [] action.type = "LOGOUT" -> [initialState EXCEPT !.loading = FALSE, !.token = NoToken]
      [] action.type = "SET_LOADING" -> [state EXCEPT !.loading = action.loading]
      [] action.type = "UPDATE_USER" ->
            [state EXCEPT !.user = Spread(state.user, action.user)]
      [] OTHER -> state

\* authReducer(state, action): what it leaves in localStorage 'token'
reducerStorage(stored, action) ==
    CASE action.type = "AUTH_SUCCESS" -> action.token
      [] action.type \in {"AUTH_FAILURE", "LOGOUT"} -> NoToken
      [] OTHER -> stored

\* dispatch(action)
dispatch(action) ==
    /\ auth' = authReducer(auth, action)
    /\ storage' = reducerStorage(storage, action)

\* the response interceptor on a 401: the stored token is removed (and the
\* page is sent to /login, which loads the application again)
intercepted(stored, outcome) == IF outcome = "401" THEN NoToken ELSE stored

Users == {"u1", "u2"}
Prefs == {"light", "dark"}
Outcomes == {"ok", "401", "failed"}
\* the token the server signs for an account, and the account of a token
TokenOf(u) == IF u = "u1" THEN "t1" ELSE "t2"
UserOf(t) == IF t = "t1" THEN "u1" ELSE "u2"
\* a request under way: its kind, the Authorization token the request
\* interceptor attached, and the account of a login or register form
Call(kind, token, user) == [kind |-> kind, token |-> token, user |-> user]

\* the application is loaded: initialState reads localStorage, the mount
\* effect runs checkAuth up to its request; requests of the page before are
\* gone with it
Load ==
    /\ auth' = [initialState EXCEPT !.token = storage, !.loading = (storage # NoToken)]
    /\ calls' = IF storage # NoToken THEN {Call("me", storage, "none")} ELSE {}
    /\ UNCHANGED <<db, now, reqVars, streamVars, sockVars, shown, fetch, seen, storage>>

\* checkAuth resumes with the answer to GET /api/auth/me
CheckAuthDone(c, outcome, prefs) ==
    /\ c \in calls /\ c.kind = "me"
    /\ calls' = calls \ {c}
    /\ IF outcome = "ok"
       THEN dispatch(Action("AUTH_SUCCESS", User(UserOf(c.token), prefs), c.token,
                            "null", FALSE))
       ELSE dispatch(Action("AUTH_FAILURE", NoUser, NoToken, "Authentication failed", FALSE))
    /\ UNCHANGED <<db, now, reqVars, streamVars, sockVars, shown, fetch, seen>>

\* login(email, password) or register(...) on a public page: AUTH_START and
\* the request is sent
LoginStart(kind, u) ==
    /\ ~auth.loading /\ auth.user.null
    /\ dispatch(Action("AUTH_START", NoUser, NoToken, "null", TRUE))
    /\ calls' = calls \cup {Call(kind, storage, u)}
    /\ UNCHANGED <<db, now, reqVars, streamVars, sockVars, shown, fetch, seen>>

\* login or register resumes with the answer
LoginDone(c, outcome) ==
    /\ c \in calls /\ c.kind \in {"login", "register"}
    /\ calls' = calls \ {c}
    /\ IF outcome = "ok"
       THEN dispatch(Action("AUTH_SUCCESS", User(c.user, "light"), TokenOf(c.user),
                            "null", FALSE))
       ELSE dispatch(Action("AUTH_FAILURE", NoUser, NoToken,
                            IF c.kind = "login" THEN "Login failed"
                            ELSE "Registration failed", FALSE))
    /\ UNCHANGED <<db, now, reqVars, streamVars, sockVars, shown, fetch, seen>>

\* logout() on a private page
Logout ==
    /\ ~auth.loading /\ ~auth.user.null
    /\ dispatch(Action("LOGOUT", NoUser, NoToken, "null", FALSE))
    /\ UNCHANGED <<db, now, reqVars, streamVars, sockVars, shown, fetch, seen, calls>>

\* updatePreferences(preferences) on a private page: the request is sent
UpdatePreferencesStart ==
    /\ ~auth.loading /\ ~auth.user.null
    /\ storage # NoToken
    /\ calls' = calls \cup {Call("prefs", storage, "none")}
    /\ UNCHANGED <<db, now, reqVars, streamVars, sockVars, shown, fetch, seen, auth, storage>>

\* updatePreferences resumes with the answer; response.data.user is the
\* account of the request's token
UpdatePreferencesDone(c, outcome, prefs) ==
    /\ c \in calls /\ c.kind = "prefs"
    /\ calls' = calls \ {c}
    /\ IF outcome = "ok"
       THEN dispatch(Action("UPDATE_USER", User(UserOf(c.token), prefs), NoToken,
                            "null", FALSE))
       ELSE /\ storage' = intercepted(storage, outcome)
            /\ UNCHANGED auth
    /\ UNCHANGED <<db, now, reqVars, streamVars, sockVars, shown, fetch, seen>>

\* the auth provider of one page and the requests it has under way
NextAuth ==
    \/ Load
    \/ \E c \in calls, o \in Outcomes, p \in Prefs : CheckAuthDone(c, o, p)
    \/ \E k \in {"login", "register"}, u \in Users : LoginStart(k, u)
    \/ \E c \in calls, o \in Outcomes : LoginDone(c, o)
    \/ Logout
    \/ UpdatePreferencesStart
    \/ \E c \in calls, o \in Outcomes, p \in Prefs : UpdatePreferencesDone(c, o, p)

SpecAuth == Init /\ [][NextAuth]_vars

\* C30: in every state of the client's auth context a user that is not null
\* comes with a token that is not null, however the completions of login,
\* register, checkAuth, logout and updatePreferences interleave (stated as
\* claimed; UPDATE_USER after LOGOUT builds a user object from null)
C30_UserImpliesToken == ~auth.user.null => auth.token # NoToken

====
